---- MODULE Spec2Model ----
(***************************************************************************)
(* A model of two DAPHNE runtime kernels:                                  *)
(*                                                                         *)
(*   - Seq<DenseMatrix<VT>>::apply   (runtime/local/kernels/Seq.h)         *)
(*   - convertCSRMatrixToRowOffsetsMemRef                                  *)
(*       (runtime/local/kernels/ConvertCSRMatrixToRowOffsetsMemRef.h)      *)
(*                                                                         *)
(* Values of type VT are modelled as exact integer multiples of a unit.    *)
(* A call carries its unit: "one" (1.0), "tenth" (0.1) or "halfeps"        *)
(* (0.5e-13), so that both increments far above eps = 1e-13 and increments *)
(* at or below eps occur.  Arithmetic on VT is exact: the rounding error   *)
(* of double addition and division is not modelled.  NaN operands are not  *)
(* modelled.                                                               *)
(***************************************************************************)
EXTENDS Integers, Sequences, FiniteSets

VARIABLES
    ndebug,     \* TRUE iff the build defines NDEBUG (assert() compiled out)
    res,        \* the caller's DenseMatrix<VT>* handle: Null or a matrix
    call,       \* the last call of Seq::apply and how it ended
    keptRes,    \* the matrix the caller kept from the call before, or Null
    csr,        \* the CSRMatrix the view kernel is called on
    heap,       \* address -> contents of the buffers the CSRMatrix owns
    refCounter, \* the reference count increaseRefCounter() bumps
    owners,     \* references held by the original owners of the matrix
    pc,         \* per thread: position in its view creation / release
    view,       \* per thread: the StridedMemRefType it built
    loaded,     \* per thread: the count read by an increment in progress
    daphne      \* one run of startDAPHNE: its command line and progress

vars == <<ndebug, res, call, keptRes, csr, heap, refCounter, owners, pc, view,
          loaded, daphne>>

seqVars == <<ndebug, res, call, keptRes>>
viewVars == <<csr, heap, refCounter, owners, pc, view, loaded>>

-----------------------------------------------------------------------------
(* Bounds *)

MaxStart == 5       \* start ranges over 0..MaxStart units
MaxEnd == 10        \* end ranges over 0..MaxEnd units
MaxInc == 3         \* inc ranges over -MaxInc..MaxInc units

Units == {"one", "tenth", "halfeps"}
Starts == 0..MaxStart
Ends == 0..MaxEnd
Incs == (0 - MaxInc)..MaxInc
MaxRows == MaxEnd + 2   \* largest pre-allocated row count tried
MaxUbRows == 2      \* row counts an undefined conversion is let produce

MaxCsrRows == 3     \* the CSRMatrix has 0..MaxCsrRows rows
MaxNnz == 5         \* and at most MaxNnz non-zeros
NumThreads == 2     \* threads creating and releasing views
MaxOwners == 2      \* references held on the matrix before any view

Threads == 1..NumThreads

MaxScriptArgs == 2  \* entries in each of the two script-argument lists

-----------------------------------------------------------------------------
(* Sequence kernel: Seq.h *)

Null == [null |-> TRUE]

\* A buffer slot: <<>> is uninitialised memory, <<v>> holds v.
Uninit == <<>>

Abs(x) == IF x < 0 THEN 0 - x ELSE x

\* ceil(a / b) for a >= 0, b > 0, as real division followed by ceil.
CeilDiv(a, b) == (a + b - 1) \div b

\* floor(eps / unit) for eps = 1.0e-13 (Seq.h:82): for an integer number x
\* of units, x * unit > eps  iff  x > EpsUnits(unit).
EpsUnits(unit) == IF unit = "halfeps" THEN 2 ELSE 0

GtEps(x, unit) == x > EpsUnits(unit)

\* DataObjectFactory::create<DenseMatrix<VT>>(numRows, 1, false):
\* a fresh buffer of numRows uninitialised rows.
Create(numRows) ==
    [numRows |-> numRows, values |-> [i \in 1..numRows |-> Uninit]]

\* DenseMatrix::shrinkNumRows: logical truncation, the buffer stays.
ShrinkNumRows(m, numRows) == [m EXCEPT !.numRows = numRows]

\* The rows a reader of the matrix sees.
Rows(m) == [i \in 1..m.numRows |-> m.values[i]]

\* Seq.h:54-57, the assert()s a build without NDEBUG evaluates.  Operands
\* are never NaN here, so only "inc != 0" can fail.
AssertsHold(start, end, inc) == inc # 0

\* Mutants of the throw's condition: one direction forgotten; non-strict
\* comparisons.
SignMismatchAscendingOnly(start, end, inc) == start < end /\ inc < 0

SignMismatchNonStrict(start, end, inc) ==
    (start <= end /\ inc < 0) \/ (start >= end /\ inc > 0)

\* Seq.h:58, the condition of the throw.
SignMismatch(start, end, inc) ==
    (start < end /\ inc < 0) \/ (start > end /\ inc > 0)

\* Mutant: the "+ 1" for the row holding start forgotten.
ExpectedNumRowsWithoutStart(start, end, inc) ==
    CeilDiv(Abs(end - start), Abs(inc))

\* Seq.h:62-63 for inc # 0: ceil(abs(end - start) / abs(inc)) + 1.
ExpectedNumRows(start, end, inc) ==
    CeilDiv(Abs(end - start), Abs(inc)) + 1

\* Mutant: the row count comes from an indeterminate value and may be one
\* too large.
ExpectedNumRowsIndeterminate(start, end, inc) ==
    IF inc = 0 THEN 0..MaxUbRows
    ELSE {ExpectedNumRows(start, end, inc), ExpectedNumRows(start, end, inc) + 1}

\* The values expectedNumRows can take.  With inc = 0 (reachable only when
\* NDEBUG removes the assert) the quotient is inf or NaN and its conversion
\* to size_t is undefined: any row count may come out (up to MaxUbRows
\* here).
ExpectedNumRowsOutcomes(start, end, inc) ==
    IF inc = 0 THEN 0..MaxUbRows ELSE {ExpectedNumRows(start, end, inc)}

\* Seq.h:69, the condition of the assert on a pre-allocated res.
RowCountMatches(m, expectedNumRows) == m.numRows = expectedNumRows

\* Seq.h:73-78: allValues[i] = accumulatorValue; accumulatorValue += inc.
\* i is the 1-based slot; writes past the buffer are not recorded.
RECURSIVE FillValues(_, _, _, _, _)
FillValues(values, i, expectedNumRows, accumulatorValue, inc) ==
    IF i > expectedNumRows \/ i > Len(values)
    THEN values
    ELSE FillValues([values EXCEPT ![i] = <<accumulatorValue>>], i + 1,
                    expectedNumRows, accumulatorValue + inc, inc)

\* Mutant: the last value compared with end without the tolerance eps.
SeqShrinksWithoutTolerance(unit, start, end, lastValue) ==
    \/ (end < start /\ end - lastValue > 0)
    \/ (end > start /\ lastValue - end > 0)

\* Mutant: the branch for the normal (ascending) sequence forgotten.
SeqShrinksReversedOnly(unit, start, end, lastValue) ==
    end < start /\ GtEps(end - lastValue, unit)

\* Seq.h:85-90, the condition under which the last row is dropped.
SeqShrinks(unit, start, end, lastValue) ==
    \/ (end < start /\ GtEps(end - lastValue, unit))
    \/ (end > start /\ GtEps(lastValue - end, unit))

Ended(outcome, m, expectedNumRows, allocated, shrunk) ==
    [outcome |-> outcome, res |-> m, expected |-> expectedNumRows,
     allocated |-> allocated, shrunk |-> shrunk]

\* Seq<DenseMatrix<VT>>::apply, Seq.h:53-91, on the handle r in a build nd,
\* with expectedNumRows the value line 63 produced.  Outcomes:
\*   "ok"     returned normally
\*   "throw"  std::runtime_error propagated to the caller
\*   "abort"  an assert() failed, the process is gone
\*   "ub"     a write or read outside the buffer happened
SeqApply(r, nd, unit, start, end, inc, expectedNumRows) ==
    IF ~nd /\ ~AssertsHold(start, end, inc)
    THEN Ended("abort", r, 0, FALSE, FALSE)
    ELSE IF SignMismatch(start, end, inc)
    THEN Ended("throw", r, 0, FALSE, FALSE)
    ELSE
      LET allocated == (r = Null)
          m == IF allocated THEN Create(expectedNumRows) ELSE r
      IN
      IF ~allocated /\ ~nd /\ ~RowCountMatches(m, expectedNumRows)
      THEN Ended("abort", r, expectedNumRows, FALSE, FALSE)
      ELSE
        LET filled == [m EXCEPT !.values =
                          FillValues(m.values, 1, expectedNumRows, start, inc)]
        IN
        IF expectedNumRows = 0 \/ expectedNumRows > Len(m.values)
        THEN Ended("ub", filled, expectedNumRows, allocated, FALSE)
        ELSE
          LET lastValue == filled.values[expectedNumRows][1] IN
          IF SeqShrinks(unit, start, end, lastValue)
          THEN Ended("ok", ShrinkNumRows(filled, expectedNumRows - 1),
                     expectedNumRows, allocated, TRUE)
          ELSE Ended("ok", filled, expectedNumRows, allocated, FALSE)

NoCall ==
    [outcome |-> "none", unit |-> "one", start |-> 0, end |-> 0, inc |-> 0,
     resBefore |-> Null, expected |-> 0, allocated |-> FALSE,
     shrunk |-> FALSE, reuse |-> FALSE]

\* The process is alive: no assert has aborted it, no memory is corrupted.
Alive == call.outcome \in {"none", "ok", "throw"}

\* One call seq(r, start, end, inc), Seq.h:42-45, and its whole effect;
\* r is the handle passed, and res the caller's handle afterwards.
InvokeOn(r, unit, start, end, inc, reuse) ==
    \E expectedNumRows \in ExpectedNumRowsOutcomes(start, end, inc) :
        LET e == SeqApply(r, ndebug, unit, start, end, inc, expectedNumRows)
        IN /\ res' = e.res
           /\ call' = [outcome |-> e.outcome, unit |-> unit, start |-> start,
                       end |-> end, inc |-> inc, resBefore |-> r,
                       expected |-> e.expected, allocated |-> e.allocated,
                       shrunk |-> e.shrunk, reuse |-> reuse]
           /\ UNCHANGED <<ndebug, viewVars, daphne>>

\* One call on the caller's current handle.
Invoke(unit, start, end, inc, reuse) ==
    InvokeOn(res, unit, start, end, inc, reuse)

\* A caller passes a handle it has just set up (null or pre-allocated).
SeqCall(unit, start, end, inc) ==
    /\ call.outcome = "none"
    /\ Invoke(unit, start, end, inc, FALSE)
    /\ keptRes' = Null

\* A caller in a loop calls again with the same arguments, passing the
\* matrix the previous call returned.
SeqCallAgain ==
    /\ call.outcome = "ok"
    /\ Invoke(call.unit, call.start, call.end, call.inc, TRUE)
    /\ keptRes' = Null

\* A caller keeps the matrix a call on a null handle returned and calls
\* once more with a null handle and the same arguments.
SeqCallSameArgs ==
    /\ call.outcome = "ok"
    /\ call.resBefore = Null
    /\ keptRes' = res
    /\ InvokeOn(Null, call.unit, call.start, call.end, call.inc, FALSE)

\* The caller pre-allocates a result matrix of numRows rows.
CallerAllocates(numRows) ==
    /\ Alive
    /\ res' = Create(numRows)
    /\ call' = NoCall
    /\ keptRes' = Null
    /\ UNCHANGED <<ndebug, viewVars, daphne>>

\* The caller drops its matrix and starts over with a null handle.
CallerResets ==
    /\ Alive
    /\ res' = Null
    /\ call' = NoCall
    /\ keptRes' = Null
    /\ UNCHANGED <<ndebug, viewVars, daphne>>

-----------------------------------------------------------------------------
(* Row-offset view kernel: ConvertCSRMatrixToRowOffsetsMemRef.h *)

\* Addresses of the two index buffers a CSRMatrix owns.
RowOffsetsAddr == "rowOffsets"
ColIdxsAddr == "colIdxs"

\* Non-decreasing row-offset arrays of numRows + 1 entries starting at 0.
RowOffsetArrays(numRows) ==
    {o \in [1..(numRows + 1) -> 0..MaxNnz] :
        /\ o[1] = 0
        /\ \A i \in 1..numRows : o[i] <= o[i + 1]}

Buffer(data) == [live |-> TRUE, data |-> data]

\* input->getRowOffsetsSharedPtr().get(): the address of the matrix's own
\* row-offset buffer; the temporary shared pointer dies with the statement.
GetRowOffsetsPtr(m) == m.rowOffsets

\* input->getNumRows()
GetNumRows(m) == m.numRows

\* Mutant: the size taken as the number of rows, without the final offset.
BuildRowOffsetsMemRefOfNumRows(input) ==
    [basePtr |-> GetRowOffsetsPtr(input),
     data    |-> GetRowOffsetsPtr(input),
     offset  |-> 0,
     sizes   |-> <<GetNumRows(input)>>,
     strides |-> <<1>>]

\* ConvertCSRMatrixToRowOffsetsMemRef.h:25-31, the descriptor the kernel
\* fills in (sizes and strides are one-dimensional arrays).
BuildRowOffsetsMemRef(input) ==
    [basePtr |-> GetRowOffsetsPtr(input),
     data    |-> GetRowOffsetsPtr(input),
     offset  |-> 0,
     sizes   |-> <<GetNumRows(input) + 1>>,
     strides |-> <<1>>]

NoView ==
    [basePtr |-> "null", data |-> "null", offset |-> 0,
     sizes |-> <<0>>, strides |-> <<0>>]

\* What externally compiled code reads at index i of a memref v.
ReadMemRef(v, i) == heap[v.data].data[v.offset + i * v.strides[1] + 1]

\* increaseRefCounter(): the count after one more consumer registered.
IncreasedRefCounter(count) == count + 1

\* Mutants: the kernel forgets the call; the kernel makes it twice.
RefCounterNotIncreased(count) == count

RefCounterIncreasedTwice(count) == IncreasedRefCounter(IncreasedRefCounter(count))

\* ConvertCSRMatrixToRowOffsetsMemRef.h:33: the kernel registers exactly
\* one consumer per call.
RefCounterAfterKernel(count) == IncreasedRefCounter(count)

\* The count after one reference was given back.
DecreasedRefCounter(count) == count - 1

\* Mutant: updates of the count do not exclude each other.
RefCounterNeverBusy(t) == TRUE

\* An update of the reference count excludes every other update of it:
\* no other thread is between the read and the write of an increment.
RefCounterFree(t) == \A u \in Threads \ {t} : pc[u] # "incr"

\* The matrix and its buffers are destroyed when the last reference goes.
HeapAfterRelease(count) ==
    IF count = 0
    THEN [a \in DOMAIN heap |-> [heap[a] EXCEPT !.live = FALSE]]
    ELSE heap

\* Lines 25-31: the thread fills in the descriptor.  Its caller passes a
\* matrix it holds a reference on.
ViewBuild(t) ==
    /\ pc[t] = "idle"
    /\ owners > 0
    /\ view' = [view EXCEPT ![t] = BuildRowOffsetsMemRef(csr)]
    /\ pc' = [pc EXCEPT ![t] = "built"]
    /\ UNCHANGED <<daphne, seqVars, csr, heap, refCounter, owners, loaded>>

\* Line 33, first half: increaseRefCounter() reads the count.
IncLoad(t) ==
    /\ pc[t] = "built"
    /\ RefCounterFree(t)
    /\ loaded' = [loaded EXCEPT ![t] = refCounter]
    /\ pc' = [pc EXCEPT ![t] = "incr"]
    /\ UNCHANGED <<daphne, seqVars, csr, heap, refCounter, owners, view>>

\* Line 33, second half: increaseRefCounter() writes the count.
IncStore(t) ==
    /\ pc[t] = "incr"
    /\ refCounter' = RefCounterAfterKernel(loaded[t])
    /\ pc' = [pc EXCEPT ![t] = "incd"]
    /\ UNCHANGED <<daphne, seqVars, csr, heap, owners, view, loaded>>

\* Line 35: the descriptor is handed to the consumer.
ViewReturn(t) ==
    /\ pc[t] = "incd"
    /\ pc' = [pc EXCEPT ![t] = "holding"]
    /\ UNCHANGED <<daphne, seqVars, csr, heap, refCounter, owners, view, loaded>>

\* The consumer gives back the reference its view holds.
ViewRelease(t) ==
    /\ pc[t] = "holding"
    /\ RefCounterFree(t)
    /\ refCounter' = DecreasedRefCounter(refCounter)
    /\ heap' = HeapAfterRelease(refCounter')
    /\ pc' = [pc EXCEPT ![t] = "released"]
    /\ UNCHANGED <<daphne, seqVars, csr, owners, view, loaded>>

\* An original owner drops its reference.  The last owner does so only
\* when no kernel call it issued is still running.
OwnerDrops ==
    /\ owners > 0
    /\ owners > 1 \/ \A t \in Threads : pc[t] \notin {"built", "incr", "incd"}
    /\ RefCounterFree(0)
    /\ owners' = owners - 1
    /\ refCounter' = DecreasedRefCounter(refCounter)
    /\ heap' = HeapAfterRelease(refCounter')
    /\ UNCHANGED <<daphne, seqVars, csr, pc, view, loaded>>

-----------------------------------------------------------------------------
(* startDAPHNE: api/internal/daphne_internal.cpp *)

\* Strings are sequences of one-character strings.

\* std::string::npos
Npos == 0 - 1

\* pair.find(ch) from position i (0-based result, Npos when absent).
RECURSIVE FindFrom(_, _, _)
FindFrom(str, ch, i) ==
    IF i > Len(str) THEN Npos
    ELSE IF str[i] = ch THEN i - 1
    ELSE FindFrom(str, ch, i + 1)

Find(str, ch) == FindFrom(str, ch, 1)

\* str.substr(pos, count), positions 0-based, count clipped to the end.
Substr(str, pos, count) ==
    SubSeq(str, pos + 1, IF pos + count > Len(str) THEN Len(str) ELSE pos + count)

\* unordered_map::count(key)
Count(map, key) == IF key \in DOMAIN map THEN 1 ELSE 0

\* unordered_map::emplace(key, value): an existing key keeps its value.
Emplace(map, key, value) ==
    [k \in DOMAIN map \cup {key} |-> IF k \in DOMAIN map THEN map[k] ELSE value]

EmptyMap == << >>

Thrown(map, kind, text) ==
    [threw |-> TRUE, map |-> map, what |-> <<kind, text>>]

\* parseScriptArgs, daphne_internal.cpp:54-65, from entry i of the list on:
\* the map it leaves and the exception it throws, if any.
RECURSIVE ParseScriptArgsFrom(_, _, _)
ParseScriptArgsFrom(scriptArgsCli, i, scriptArgsFinal) ==
    IF i > Len(scriptArgsCli)
    THEN [threw |-> FALSE, map |-> scriptArgsFinal, what |-> << >>]
    ELSE
      LET pair == scriptArgsCli[i]
          pos == Find(pair, "=")
      IN
      IF pos = Npos
      THEN Thrown(scriptArgsFinal, "not name=value", pair)
      ELSE
        LET argName == Substr(pair, 0, pos)
            argValue == Substr(pair, pos + 1, Len(pair))
        IN
        IF Count(scriptArgsFinal, argName) # 0
        THEN Thrown(scriptArgsFinal, "more than once", argName)
        ELSE ParseScriptArgsFrom(scriptArgsCli, i + 1,
                                 Emplace(scriptArgsFinal, argName, argValue))

ParseScriptArgs(scriptArgsCli, scriptArgsFinal) ==
    ParseScriptArgsFrom(scriptArgsCli, 1, scriptArgsFinal)

\* Mutant: the list of --args is parsed before the positional arguments.
ExtractScriptArgsOptionFirst(scriptArgs2, scriptArgs1) ==
    LET first == ParseScriptArgs(scriptArgs1, EmptyMap)
    IN  IF first.threw THEN first
        ELSE ParseScriptArgs(scriptArgs2, first.map)

\* daphne_internal.cpp:444-452: scriptArgs2 (the positional arguments after
\* the script) first, then scriptArgs1 (--args), into scriptArgsFinal.
ExtractScriptArgs(scriptArgs2, scriptArgs1) ==
    LET first == ParseScriptArgs(scriptArgs2, EmptyMap)
    IN  IF first.threw THEN first
        ELSE ParseScriptArgs(scriptArgs1, first.map)

\* Entries a command line is built from.
ScriptArgPool ==
    { <<"x">>,
      <<"a", "=", "1">>,
      <<"a", "=", "2">>,
      <<"b", "=", "1">>,
      <<"c", "=", "1", "=", "2">> }

ScriptArgLists ==
    UNION {[1..n -> ScriptArgPool] : n \in 0..MaxScriptArgs}

\* startDAPHNE has not been called.
NotStarted == [pc |-> "idle"]

Run(at, scriptArgs2, scriptArgs1, extracted, map, what, status, stages) ==
    [pc |-> at, scriptArgs2 |-> scriptArgs2, scriptArgs1 |-> scriptArgs1,
     extracted |-> extracted, scriptArgsFinal |-> map, what |-> what,
     status |-> status, stages |-> stages]

\* The run ends with a return value.
Return(status, stage, result) ==
    daphne' = [daphne EXCEPT !.pc = "returned", !.status = status,
                             !.stages = Append(@, <<stage, result>>)]

\* The run goes on to the next stage.
Proceed(next, stage, result) ==
    daphne' = [daphne EXCEPT !.pc = next,
                             !.stages = Append(@, <<stage, result>>)]

\* startDAPHNE up to the parsing of the script, daphne_internal.cpp:74-470.
\*   config: reading the user configuration succeeds or throws (320-334)
\*   mpi:    "off"          no MPI backend in use
\*           "throw"        MPI unavailable or a single rank (400, 408)
\*           "worker"       a rank other than the coordinator (410-413)
\*           "coordinator"  the coordinator rank
StartDAPHNE(scriptArgs2, scriptArgs1, config, mpi) ==
    /\ daphne.pc = "idle"
    /\ LET early(at, status) ==
               Run(at, scriptArgs2, scriptArgs1, FALSE, EmptyMap, << >>,
                   status, << >>)
           e == ExtractScriptArgs(scriptArgs2, scriptArgs1)
       IN daphne' =
            IF config = "throw" THEN early("returned", "PARSER_ERROR")
            ELSE IF mpi = "throw" THEN early("thrown", "NONE")
            ELSE IF mpi = "worker" THEN early("returned", "RANK")
            ELSE IF e.threw
            THEN Run("returned", scriptArgs2, scriptArgs1, TRUE, EmptyMap,
                     e.what, "PARSER_ERROR", << >>)
            ELSE Run("parse", scriptArgs2, scriptArgs1, TRUE, e.map, << >>,
                     "NONE", << >>)
    /\ UNCHANGED <<seqVars, viewVars>>

\* Mutant: a failure result of runPasses is not looked at.
AfterPassesIgnoringResult(result) ==
    IF result = "throw" THEN "PASS_ERROR" ELSE "go on"

\* daphne_internal.cpp:474-481: the parser fails only by an exception.
AfterParse(result) == IF result = "ok" THEN "go on" ELSE "PARSER_ERROR"

\* daphne_internal.cpp:484-492: runPasses returns false or throws.
AfterPasses(result) == IF result = "ok" THEN "go on" ELSE "PASS_ERROR"

\* daphne_internal.cpp:496-509: creating the engine or invoking main throws,
\* or invoke returns an error.
AfterExecute(result) == IF result = "ok" THEN "SUCCESS" ELSE "EXECUTION_ERROR"

\* parser.parseFile(builder, inputFile)
ParseFile(result) ==
    /\ daphne.pc = "parse"
    /\ IF AfterParse(result) = "go on"
       THEN Proceed("passes", "parse", result)
       ELSE Return(AfterParse(result), "parse", result)
    /\ UNCHANGED <<seqVars, viewVars>>

\* executor.runPasses(moduleOp)
RunPasses(result) ==
    /\ daphne.pc = "passes"
    /\ IF AfterPasses(result) = "go on"
       THEN Proceed("execute", "passes", result)
       ELSE Return(AfterPasses(result), "passes", result)
    /\ UNCHANGED <<seqVars, viewVars>>

\* executor.createExecutionEngine(moduleOp); engine->invoke("main")
Execute(result) ==
    /\ daphne.pc = "execute"
    /\ Return(AfterExecute(result), "execute", result)
    /\ UNCHANGED <<seqVars, viewVars>>

-----------------------------------------------------------------------------
(* Claims about the sequence kernel, checked under SpecSeq *)

Called == call.outcome # "none"

\* eps = 1e-13 in units, as the claims use it.
ClaimEps(unit) == IF unit = "halfeps" THEN 2 ELSE 0

\* How far v lies past end in the direction of inc (negative: before end).
PastEnd(v) == IF call.inc > 0 THEN v - call.end ELSE call.end - v

\* The arguments satisfy the kernel's preconditions on start, end and inc.
ValidArgs ==
    /\ call.inc # 0
    /\ ~(call.start < call.end /\ call.inc < 0)
    /\ ~(call.start > call.end /\ call.inc > 0)

\* ceil(|end - start| / |inc|) + 1 of the last call, for inc # 0.
ClaimExpectedCount ==
    LET d == IF call.end >= call.start THEN call.end - call.start
             ELSE call.start - call.end
        a == IF call.inc < 0 THEN 0 - call.inc ELSE call.inc
    IN  ((d + a - 1) \div a) + 1

\* The sequence start, start + inc, ... of n rows.
Progression(n) == [i \in 1..n |-> <<call.start + (i - 1) * call.inc>>]

\* Indices tried when looking for the values of a sequence.
Horizon == 0..(MaxStart + MaxEnd + ClaimEps("halfeps") + 2)

\* C1: a call whose inc points away from end (start < end with inc < 0, or
\* start > end with inc > 0) ends in the thrown error, has allocated
\* nothing, and leaves res exactly as the caller passed it.
C1_SignMismatchThrowsBeforeAllocation ==
    (Called /\ (\/ (call.start < call.end /\ call.inc < 0)
                \/ (call.start > call.end /\ call.inc > 0)))
    => /\ call.outcome = "throw"
       /\ ~call.allocated
       /\ res = call.resBefore

\* C1 witness: such a call was made on a pre-allocated matrix and threw.
C1_Witness ==
    /\ call.outcome = "throw"
    /\ call.start > call.end /\ call.inc > 0
    /\ call.resBefore # Null
    /\ res = call.resBefore
    /\ res.numRows > 0

\* C2: every call with inc = 0 fails (here: by the thrown error or, read
\* generously, by a failed assert), allocates nothing and writes nothing
\* into a result buffer.
C2_ZeroIncAlwaysRejected ==
    (Called /\ call.inc = 0)
    => /\ call.outcome \in {"throw", "abort"}
       /\ ~call.allocated
       /\ res = call.resBefore

\* C3 as stated: with res null and valid arguments the rows are exactly
\* the values start + i*inc, i = 0, 1, 2, ..., that do not go past end by
\* more than eps.
C3_RowsAreAllValuesWithinEps ==
    (Called /\ call.resBefore = Null /\ ValidArgs)
    => /\ call.outcome = "ok"
       /\ LET within == {i \in Horizon :
                  PastEnd(call.start + i * call.inc) <= ClaimEps(call.unit)}
          IN  Rows(res) = Progression(Cardinality(within))

\* C3 as amended: with res null and valid arguments the rows are the
\* values start + i*inc, i = 0, 1, 2, ..., up to and including the first
\* one that reaches or passes end, that one being left out when it passes
\* end by more than eps; row 0 is start; seq(0,10,1) is 0..10, seq(5,0,-1)
\* is 5,4,3,2,1,0 and seq(0,1,0.3) is 0, 0.3, 0.6, 0.9.
C3_RowsUpToFirstValueReachingEnd ==
    (Called /\ call.resBefore = Null /\ ValidArgs)
    => /\ call.outcome = "ok"
       /\ LET before == {i \in Horizon :
                  PastEnd(call.start + i * call.inc) < 0}
              first == Cardinality(before)
              kept == PastEnd(call.start + first * call.inc)
                          <= ClaimEps(call.unit)
          IN  Rows(res) = Progression(IF kept THEN first + 1 ELSE first)
       /\ res.values[1] = <<call.start>>
       /\ (call.unit = "one" /\ call.start = 0 /\ call.end = 10
              /\ call.inc = 1)
          => Rows(res) = <<<<0>>, <<1>>, <<2>>, <<3>>, <<4>>, <<5>>, <<6>>,
                           <<7>>, <<8>>, <<9>>, <<10>>>>
       /\ (call.unit = "one" /\ call.start = 5 /\ call.end = 0
              /\ call.inc = 0 - 1)
          => Rows(res) = <<<<5>>, <<4>>, <<3>>, <<2>>, <<1>>, <<0>>>>
       /\ (call.unit = "tenth" /\ call.start = 0 /\ call.end = 10
              /\ call.inc = 3)
          => Rows(res) = <<<<0>>, <<3>>, <<6>>, <<9>>>>

\* C3 witness: seq(0, 1, 0.3) on a null res returned its four rows.
C3_Witness ==
    /\ call.outcome = "ok"
    /\ call.resBefore = Null
    /\ call.unit = "tenth" /\ call.start = 0 /\ call.end = 10 /\ call.inc = 3
    /\ res.numRows = 4

\* C4: after a valid ascending call (start < end, inc > 0, res null or of
\* the expected row count) consecutive rows of the returned matrix differ
\* by inc and no row exceeds end by more than eps.
C4_AscendingRowsStepByIncAndStayWithinEps ==
    (/\ Called
     /\ call.start < call.end /\ call.inc > 0
     /\ (call.resBefore = Null \/ call.resBefore.numRows = ClaimExpectedCount))
    => /\ call.outcome = "ok"
       /\ \A i \in 1..(res.numRows - 1) :
             res.values[i + 1][1] - res.values[i][1] = call.inc
       /\ \A i \in 1..res.numRows :
             res.values[i][1] - call.end <= ClaimEps(call.unit)

\* C4 witness: an ascending call returned after truncating its last row.
C4_Witness ==
    /\ call.outcome = "ok"
    /\ call.start < call.end /\ call.inc > 0
    /\ call.shrunk
    /\ res.numRows >= 2

\* C5: with start = end and inc # 0 of either sign (res null or of one
\* row) the call succeeds, expects one row, truncates nothing and returns
\* the single row [start].
C5_DegenerateSequenceIsSingleRow ==
    (/\ Called
     /\ call.start = call.end /\ call.inc # 0
     /\ (call.resBefore = Null \/ call.resBefore.numRows = 1))
    => /\ call.outcome = "ok"
       /\ call.expected = 1
       /\ ~call.shrunk
       /\ Rows(res) = <<<<call.start>>>>

\* C5 witness: a call with start = end and a negative inc returned.
C5_Witness ==
    /\ call.outcome = "ok"
    /\ call.start = call.end /\ call.inc < 0
    /\ call.resBefore = Null
    /\ res.numRows = 1

\* C6: a call with valid arguments on a pre-allocated res stops with the
\* failed precondition and leaves res unwritten when res's row count
\* differs from ceil(|end - start| / |inc|) + 1, and otherwise fills that
\* same buffer without allocating.
C6_PreallocatedResMustMatchExpectedCount ==
    (Called /\ call.resBefore # Null /\ ValidArgs)
    => IF call.resBefore.numRows # ClaimExpectedCount
       THEN call.outcome = "abort" /\ res = call.resBefore
       ELSE /\ call.outcome = "ok"
            /\ ~call.allocated
            /\ Len(res.values) = Len(call.resBefore.values)
            /\ \A i \in 1..res.numRows : res.values[i] # Uninit

C12_BoundaryCorrectionDropsAtMostLastRow ==
    (/\ Called /\ ValidArgs
     /\ (call.resBefore = Null \/ call.resBefore.numRows = ClaimExpectedCount))
    => LET lastValue == call.start + (ClaimExpectedCount - 1) * call.inc
           overshoots == /\ call.start # call.end
                         /\ PastEnd(lastValue) > ClaimEps(call.unit)
       IN /\ call.outcome = "ok"
          /\ res.numRows \in {ClaimExpectedCount, ClaimExpectedCount - 1}
          /\ (res.numRows = ClaimExpectedCount - 1) <=> overshoots
          /\ SubSeq(res.values, 1, res.numRows) = Progression(res.numRows)
          /\ Len(res.values) = ClaimExpectedCount
          /\ PastEnd(lastValue) < 0 => res.numRows = ClaimExpectedCount

\* C12 witness: a call whose last value passed end by no more than eps
\* kept all its rows.
C12_Witness ==
    /\ call.outcome = "ok"
    /\ call.unit = "halfeps"
    /\ ~call.shrunk
    /\ res.numRows = call.expected
    /\ res.numRows >= 2
    /\ PastEnd(res.values[res.numRows][1]) > 0

\* C13: the matrix a call returned for valid arguments can be passed back
\* as res of a second call with the same arguments: the second call
\* returns and leaves the same rows in the buffer.
C13_ReturnedMatrixCanBeReused ==
    (Called /\ call.reuse /\ ValidArgs)
    => /\ call.outcome = "ok"
       /\ Rows(res) = Rows(call.resBefore)

-----------------------------------------------------------------------------
(* Claims about the row-offset view kernel, checked under SpecView *)

\* The threads whose descriptor has been filled in.
Built == {t \in Threads : pc[t] \in {"built", "incr", "incd", "holding",
                                     "released"}}

\* The threads that hold a view whose reference they have not given back.
Holding == {t \in Threads : pc[t] = "holding"}

\* No thread is inside a view creation.
Quiescent == \A t \in Threads : pc[t] \in {"idle", "holding", "released"}

\* C7: a view of a CSR matrix of r rows has data = basePtr = the address
\* of the matrix's own row-offset buffer, offset 0, sizes[0] = r + 1 and
\* strides[0] = 1, and index i of the view, 0 <= i <= r, reads row offset i.
C7_ViewAliasesRowOffsets ==
    \A t \in Built :
        /\ view[t].basePtr = csr.rowOffsets
        /\ view[t].basePtr = "rowOffsets"
        /\ view[t].data = view[t].basePtr
        /\ view[t].offset = 0
        /\ view[t].sizes = <<csr.numRows + 1>>
        /\ view[t].strides = <<1>>
        /\ Len(heap["rowOffsets"].data) = view[t].sizes[1]
        /\ \A i \in 0..csr.numRows :
              heap[view[t].data].data[view[t].offset + i * view[t].strides[1] + 1]
                  = heap["rowOffsets"].data[i + 1]

\* C7 witness: a view of the matrix with row offsets [0,2,2,5] is held.
C7_Witness ==
    /\ Holding # {}
    /\ csr.numRows = 3
    /\ heap["rowOffsets"].data = <<0, 2, 2, 5>>
    /\ \A t \in Holding : view[t].sizes = <<4>>

\* C8: each call raises the count by exactly one: as long as no view has
\* been released, the count is the owners' references plus the number of
\* calls whose increment is done.
C8_EachCallAddsOneReference ==
    (\A t \in Threads : pc[t] \notin {"incr", "released"})
    => refCounter =
           owners + Cardinality({t \in Threads : pc[t] \in {"incd", "holding"}})

\* C8 witness: two calls have returned, nothing was released, and the
\* count is two above the owners' references.
C8_Witness ==
    /\ Cardinality(Holding) >= 2
    /\ \A t \in Threads : pc[t] # "released"
    /\ owners >= 1
    /\ refCounter = owners + Cardinality(Holding)

\* C9: while a view is held the buffer is not freed, whatever the owners
\* do; the buffer is freed only when no owner and no view is left; and
\* once every created view has been released the count is back at the
\* owners' references.
C9_ViewKeepsBufferAlive ==
    /\ Holding # {} => heap["rowOffsets"].live
    /\ ~heap["rowOffsets"].live => (owners = 0 /\ Holding = {})
    /\ (\A t \in Threads : pc[t] \in {"idle", "released"})
          => refCounter = owners

\* C9 witness: every original owner has dropped its reference, a view is
\* still held, and the buffer is alive.
C9_Witness ==
    /\ owners = 0
    /\ Holding # {}
    /\ heap["rowOffsets"].live
    /\ \E t \in Threads : pc[t] = "released"

\* C10: for every interleaving of view creations and releases, whenever
\* no creation is in progress the count is the owners' references plus the
\* n views created minus the m views released.
C10_NoLostUpdate ==
    Quiescent
    => refCounter =
           owners
           + Cardinality({t \in Threads : pc[t] \in {"holding", "released"}})
           - Cardinality({t \in Threads : pc[t] = "released"})

\* C10 witness: all threads have created a view, one has released it.
C10_Witness ==
    /\ \A t \in Threads : pc[t] \in {"holding", "released"}
    /\ \E t \in Threads : pc[t] = "released"
    /\ \E t \in Threads : pc[t] = "holding"

-----------------------------------------------------------------------------
(* Claims about startDAPHNE, checked under SpecDaphne *)

\* The run has reached the extraction of the script arguments.
Extracted == daphne.pc # "idle" /\ daphne.extracted

\* All entries in the order the claim gives: positional, then --args.
AllScriptArgs == daphne.scriptArgs2 \o daphne.scriptArgs1

HasEquals(entry) == \E k \in 1..Len(entry) : entry[k] = "="

\* The position of the first '=' of an entry that has one.
FirstEquals(entry) ==
    CHOOSE k \in 1..Len(entry) :
        entry[k] = "=" /\ \A j \in 1..(k - 1) : entry[j] # "="

NameOf(entry) == SubSeq(entry, 1, FirstEquals(entry) - 1)
ValueOf(entry) == SubSeq(entry, FirstEquals(entry) + 1, Len(entry))

\* Entry i has no '=' or repeats the name of an earlier entry.
Offends(i) ==
    \/ ~HasEquals(AllScriptArgs[i])
    \/ \E j \in 1..(i - 1) :
          /\ HasEquals(AllScriptArgs[j])
          /\ NameOf(AllScriptArgs[j]) = NameOf(AllScriptArgs[i])

Offenders == {i \in 1..Len(AllScriptArgs) : Offends(i)}

\* The stages that have run, in order.
StagesRun == [i \in 1..Len(daphne.stages) |-> daphne.stages[i][1]]

\* Stage i ended without failure.
Succeeded(i) == daphne.stages[i][2] = "ok"

\* C14: once the script arguments are extracted: if some entry has no '='
\* or repeats a name (within one list or across the two), startDAPHNE has
\* returned PARSER_ERROR with no stage run, and the error names the first
\* such entry in the order positional arguments, then --args; otherwise
\* the map holds, for every entry, the text after its first '=' under the
\* text before it, and nothing else.
C14_ScriptArgsParsedInOrderIntoOneMap ==
    Extracted
    => IF Offenders # {}
       THEN /\ daphne.pc = "returned"
            /\ daphne.status = "PARSER_ERROR"
            /\ daphne.stages = << >>
            /\ LET i == CHOOSE k \in Offenders : \A l \in Offenders : k <= l
                   entry == AllScriptArgs[i]
               IN  daphne.what =
                       IF HasEquals(entry)
                       THEN <<"more than once", NameOf(entry)>>
                       ELSE <<"not name=value", entry>>
       ELSE /\ daphne.what = << >>
            /\ DOMAIN daphne.scriptArgsFinal =
                   {NameOf(AllScriptArgs[i]) : i \in 1..Len(AllScriptArgs)}
            /\ Cardinality(DOMAIN daphne.scriptArgsFinal) = Len(AllScriptArgs)
            /\ \A i \in 1..Len(AllScriptArgs) :
                   daphne.scriptArgsFinal[NameOf(AllScriptArgs[i])]
                       = ValueOf(AllScriptArgs[i])

\* C14 witness: a name given once positionally and once with --args made
\* the run return PARSER_ERROR.
C14_Witness ==
    /\ Extracted
    /\ daphne.scriptArgs2 = << <<"c", "=", "1", "=", "2">>, <<"a", "=", "1">> >>
    /\ daphne.scriptArgs1 = << <<"a", "=", "2">> >>
    /\ daphne.status = "PARSER_ERROR"
    /\ daphne.what = <<"more than once", <<"a">>>>

\* C15: the stages run in the order parsing, passes, execution; a stage
\* runs only if every earlier one succeeded; a run that returned after a
\* failed stage returned that stage's error code; and SUCCESS is returned
\* exactly when all three stages ran and succeeded.
C15_StagesInOrderAndStatusOfFirstFailure ==
    daphne.pc # "idle"
    => /\ \E n \in 0..3 :
             StagesRun = SubSeq(<<"parse", "passes", "execute">>, 1, n)
       /\ \A i \in 1..(Len(daphne.stages) - 1) : Succeeded(i)
       /\ \A i \in 1..Len(daphne.stages) :
             ~Succeeded(i)
             => /\ daphne.pc = "returned"
                /\ daphne.status =
                      CASE StagesRun[i] = "parse" -> "PARSER_ERROR"
                        [] StagesRun[i] = "passes" -> "PASS_ERROR"
                        [] StagesRun[i] = "execute" -> "EXECUTION_ERROR"
       /\ daphne.status = "SUCCESS"
             <=> (Len(daphne.stages) = 3 /\ \A i \in 1..3 : Succeeded(i))
       /\ daphne.status = "NONE" <=> daphne.pc # "returned"

\* C15 witness: parsing succeeded, the passes failed by their result, and
\* the run returned PASS_ERROR without executing.
C15_Witness ==
    /\ daphne.pc = "returned"
    /\ daphne.status = "PASS_ERROR"
    /\ daphne.stages = << <<"parse", "ok">>, <<"passes", "fail">> >>

-----------------------------------------------------------------------------
(* Specifications *)

SeqIdle ==
    /\ ndebug = FALSE
    /\ res = Null
    /\ call = NoCall
    /\ keptRes = Null

ViewIdle ==
    /\ csr = [numRows |-> 0, rowOffsets |-> RowOffsetsAddr,
              colIdxs |-> ColIdxsAddr]
    /\ heap = [a \in {RowOffsetsAddr, ColIdxsAddr} |->
                 IF a = RowOffsetsAddr THEN Buffer(<<0>>) ELSE Buffer(<<>>)]
    /\ refCounter = 1
    /\ owners = 1
    /\ pc = [t \in Threads |-> "idle"]
    /\ view = [t \in Threads |-> NoView]
    /\ loaded = [t \in Threads |-> 0]

DaphneIdle == daphne = NotStarted

\* The sequence kernel under every build and every caller.
InitSeq ==
    /\ ndebug \in BOOLEAN
    /\ res = Null
    /\ call = NoCall
    /\ keptRes = Null
    /\ ViewIdle
    /\ DaphneIdle

NextSeq ==
    \/ \E unit \in Units, start \in Starts, end \in Ends, inc \in Incs :
          SeqCall(unit, start, end, inc)
    \/ SeqCallAgain
    \/ SeqCallSameArgs
    \/ \E numRows \in 0..MaxRows : CallerAllocates(numRows)
    \/ CallerResets

SpecSeq == InitSeq /\ [][NextSeq]_vars

\* The view kernel called by several threads on one fully constructed
\* CSRMatrix.
InitView ==
    /\ SeqIdle
    /\ DaphneIdle
    /\ \E numRows \in 0..MaxCsrRows :
        /\ csr = [numRows |-> numRows, rowOffsets |-> RowOffsetsAddr,
                  colIdxs |-> ColIdxsAddr]
        /\ \E o \in RowOffsetArrays(numRows) :
              heap = [a \in {RowOffsetsAddr, ColIdxsAddr} |->
                        IF a = RowOffsetsAddr
                        THEN Buffer(o)
                        ELSE Buffer([i \in 1..o[numRows + 1] |-> 0])]
    /\ owners \in 1..MaxOwners
    /\ refCounter = owners
    /\ pc = [t \in Threads |-> "idle"]
    /\ view = [t \in Threads |-> NoView]
    /\ loaded = [t \in Threads |-> 0]

NextView ==
    \/ \E t \in Threads : ViewBuild(t)
    \/ \E t \in Threads : IncLoad(t)
    \/ \E t \in Threads : IncStore(t)
    \/ \E t \in Threads : ViewReturn(t)
    \/ \E t \in Threads : ViewRelease(t)
    \/ OwnerDrops

SpecView == InitView /\ [][NextView]_vars

\* One run of startDAPHNE on every command line.
InitDaphne ==
    /\ SeqIdle
    /\ ViewIdle
    /\ DaphneIdle

NextDaphne ==
    \/ \E scriptArgs2 \in ScriptArgLists, scriptArgs1 \in ScriptArgLists,
          config \in {"ok", "throw"},
          mpi \in {"off", "throw", "worker", "coordinator"} :
          StartDAPHNE(scriptArgs2, scriptArgs1, config, mpi)
    \/ \E result \in {"ok", "throw"} : ParseFile(result)
    \/ \E result \in {"ok", "fail", "throw"} : RunPasses(result)
    \/ \E result \in {"ok", "fail", "throw"} : Execute(result)

SpecDaphne == InitDaphne /\ [][NextDaphne]_vars

====
